---------------------------- MODULE Spec2Model ----------------------------
(***************************************************************************)
(* Model of amznDocker.py: the Telegram bot that rewrites Amazon links     *)
(* into affiliate links.                                                   *)
(*                                                                         *)
(* Text is a sequence of fragments.  Every fragment stands for one fixed   *)
(* piece of text without inner whitespace (except "sp"):                   *)
(*   "sp"  a blank                    "w"   the word  hello                *)
(*   "P"   https://www.amazon.com/dp/ (AMAZON_TLD = com)                   *)
(*   "a1"  B000000001   "a2"  B000000002      (well-formed ASINs)          *)
(*   "k1"  3xYz         (alphanumeric token of a short link, not an ASIN)  *)
(*   "Z"   https://amzn.to/                                                *)
(*   "G"   https://ex.org/a           (a URL that is not Amazon's)         *)
(*   "?q"  ?ref=x       "&q"  &ref=x                                       *)
(*   "?e"  ?psc=        "&e"  &psc=     (a parameter with an empty value)  *)
(*   "?T"  ?tag=<AMAZON_TAG>   "&T"  &tag=<AMAZON_TAG>                     *)
(*   "?D"  ?tag=gioxx-21       "&D"  &tag=gioxx-21                         *)
(*   "b1"  https://bit.ly/1           (a link returned by bit.ly)          *)
(* The regular expressions of the source are modelled by what they match   *)
(* on such sequences.                                                      *)
(***************************************************************************)
EXTENDS Integers, Sequences, FiniteSets, TLC

VARIABLES
    config,     \* the module-level configuration, lines 18-29 (read once)
    task,       \* per handle_message task: its message and its locals
    crashed,    \* TRUE once a fault has escaped a handle_message task
    net,        \* the redirect graph seen by a stepwise get_long_url call
    rstack,     \* the activation frames of that get_long_url call
    rret,       \* the value being returned by the innermost finished frame
    rgets,      \* HTTP GETs issued by that call
    rcalls,     \* activations of get_long_url made by that call
    rtrace,     \* the responses received by that call, in order
    call        \* the last call of a function of the link resolver or of
                \* the template: its arguments and what it gave

vars == <<config, task, crashed, net, rstack, rret, rgets, rcalls, rtrace, call>>
taskVars == <<task, crashed>>
resolveVars == <<net, rstack, rret, rgets, rcalls, rtrace>>

-----------------------------------------------------------------------------
(* Bounds of the model *)

\* largest MAX_REDIRECT_CHAIN_DEPTH the configuration is drawn from
MaxDepth == 3
\* largest number of blank-separated items of a message text
MaxItems == 2

-----------------------------------------------------------------------------
(* Values *)

\* Python's None where a string is expected
\* no function of the link resolver has been called so far
NoCall == [fn |-> "none", args |-> <<>>, lucky |-> FALSE, out |-> <<>>]

NoneStr == <<"<None>">>

\* truthiness of an optional string: None and '' are falsy
Truthy(s) == s # NoneStr /\ s # <<>>

RAW_LINKS == config.RAW_LINKS
CHECK_FOR_REDIRECTS == config.CHECK_FOR_REDIRECTS
CHECK_FOR_REDIRECT_CHAINS == config.CHECK_FOR_REDIRECT_CHAINS
MAX_REDIRECT_CHAIN_DEPTH == config.MAX_REDIRECT_CHAIN_DEPTH
SHORTEN_LINKS == config.SHORTEN_LINKS
SUPPORT_DEV == config.SUPPORT_DEV
CHANNEL_NAME == config.CHANNEL_NAME

\* the configurations os.environ can produce (CHANNEL_NAME: set or not;
\* AMAZON_TAG: "D" for gioxx-21, "T" for any other tag)
Configs ==
    [RAW_LINKS : BOOLEAN, CHECK_FOR_REDIRECTS : BOOLEAN,
     CHECK_FOR_REDIRECT_CHAINS : BOOLEAN,
     MAX_REDIRECT_CHAIN_DEPTH : 1..MaxDepth,
     SHORTEN_LINKS : BOOLEAN, SUPPORT_DEV : BOOLEAN, CHANNEL_NAME : BOOLEAN,
     AMAZON_TAG : {"T", "D"}]

-----------------------------------------------------------------------------
(* The redirect probe: what one session.get(url, allow_redirects=False)    *)
(* can give.                                                               *)

\* URLs a redirect can point to
Urls == { <<"Z", "k1">>, <<"G">>, <<"P", "a2">> }

RespError == [kind |-> "error", status |-> 0, location |-> NoneStr]
RespOk == [kind |-> "response", status |-> 200, location |-> NoneStr]
RespRedirect(loc) == [kind |-> "response", status |-> 302, location |-> loc]

\* a transport fault, a plain answer, a redirect with or without Location
Responses == {RespError, RespOk} \cup {RespRedirect(l) : l \in Urls \cup {NoneStr}}

\* line 158
IsRedirectStatus(status) == status \in {301, 302, 303, 307, 308}

\* the result of get_long_url: a dict, or None
Failure == [ok |-> FALSE, full_url |-> NoneStr, short_url |-> NoneStr]
Resolution(full, short) == [ok |-> TRUE, full_url |-> full, short_url |-> short]

FollowChainOffByOne(chain_depth) ==
    CHECK_FOR_REDIRECT_CHAINS /\ chain_depth <= MAX_REDIRECT_CHAIN_DEPTH

\* line 160: whether the Location is followed by a recursive call
FollowChain(chain_depth) ==
    CHECK_FOR_REDIRECT_CHAINS /\ chain_depth < MAX_REDIRECT_CHAIN_DEPTH


(* get_long_url as a function of the responses the network gives: resps[d] *)
(* answers the GET issued by the activation whose chain_depth became d.    *)
RECURSIVE get_long_url(_, _, _)
get_long_url(short_url, chain_depth, resps) ==
    LET depth == chain_depth + 1                                \* line 155
        \* session.get(None) raises before anything is sent
        response == IF short_url = NoneStr THEN RespError ELSE resps[depth]
    IN  IF response.kind = "error"
        THEN Failure                                            \* lines 168-170
        ELSE IF IsRedirectStatus(response.status)
        THEN LET full_url == response.location                  \* line 159
             IN  IF FollowChain(depth)
                 THEN LET next_redirect == get_long_url(full_url, depth, resps)
                      IN  IF ~next_redirect.ok
                          THEN Failure      \* None['full_url']: TypeError, caught
                          ELSE Resolution(next_redirect.full_url, short_url)
                 ELSE Resolution(full_url, short_url)           \* line 164
        ELSE Resolution(short_url, short_url)                   \* line 167

\* the number of GETs one call get_long_url(short_url, chain_depth) sends
RECURSIVE get_long_url_gets(_, _, _)
get_long_url_gets(short_url, chain_depth, resps) ==
    LET depth == chain_depth + 1
    IN  IF short_url = NoneStr THEN 0
        ELSE IF resps[depth].kind = "response"
                /\ IsRedirectStatus(resps[depth].status) /\ FollowChain(depth)
        THEN 1 + get_long_url_gets(resps[depth].location, depth, resps)
        ELSE 1

-----------------------------------------------------------------------------
(* get_long_url step by step, against a fixed redirect graph net.          *)
(* A frame is one activation: its argument and its chain_depth after the   *)
(* increment of line 155; awaiting marks a frame suspended at line 161.    *)

NoRet == [ok |-> FALSE, full_url |-> <<"<pending>">>, short_url |-> NoneStr]

Frame(url, depth) == [short_url |-> url, chain_depth |-> depth, awaiting |-> FALSE]

Top == rstack[Len(rstack)]
Pop == SubSeq(rstack, 1, Len(rstack) - 1)

ResolveIdle == rstack = <<>> /\ rret = NoRet /\ rcalls = 0
ResolveDone == rstack = <<>> /\ rret # NoRet

\* the top-level call get_long_url(url): chain_depth = 0, then line 155
ResolveCall ==
    /\ ResolveIdle
    /\ \E url \in Urls : rstack' = <<Frame(url, 0 + 1)>>
    /\ rcalls' = 1
    /\ UNCHANGED <<config, taskVars, call, net, rret, rgets, rtrace>>

\* lines 156-170 of the innermost activation: the GET and what follows it
ResolveGet ==
    /\ rstack # <<>> /\ ~Top.awaiting /\ rret = NoRet
    /\ IF Top.short_url = NoneStr
       THEN \* session.get(None) raises; the except clause returns None
            /\ rstack' = Pop /\ rret' = Failure
            /\ UNCHANGED <<rgets, rcalls, rtrace>>
       ELSE LET response == net[Top.short_url] IN
            /\ rgets' = rgets + 1
            /\ rtrace' = Append(rtrace, response)
            /\ IF response.kind = "error"
               THEN rstack' = Pop /\ rret' = Failure /\ UNCHANGED rcalls
               ELSE IF IsRedirectStatus(response.status)
               THEN IF FollowChain(Top.chain_depth)
                    THEN /\ rstack' = Append(
                                [rstack EXCEPT ![Len(rstack)].awaiting = TRUE],
                                Frame(response.location, Top.chain_depth + 1))
                         /\ rcalls' = rcalls + 1
                         /\ UNCHANGED rret
                    ELSE /\ rstack' = Pop
                         /\ rret' = Resolution(response.location, Top.short_url)
                         /\ UNCHANGED rcalls
               ELSE /\ rstack' = Pop
                    /\ rret' = Resolution(Top.short_url, Top.short_url)
                    /\ UNCHANGED rcalls
    /\ UNCHANGED <<config, taskVars, call, net>>

ResolveReturnInner ==
    /\ rstack # <<>> /\ Top.awaiting /\ rret # NoRet
    /\ rstack' = Pop
    /\ rret' = rret
    /\ UNCHANGED <<config, taskVars, call, net, rgets, rcalls, rtrace>>

\* line 162 (and 168-170 when the inner call gave None): the recursive call
\* has returned into the suspended activation
ResolveReturn ==
    /\ rstack # <<>> /\ Top.awaiting /\ rret # NoRet
    /\ rstack' = Pop
    /\ rret' = IF ~rret.ok THEN Failure
               ELSE Resolution(rret.full_url, Top.short_url)
    /\ UNCHANGED <<config, taskVars, call, net, rgets, rcalls, rtrace>>

NextResolve == ResolveCall \/ ResolveGet \/ ResolveReturn

-----------------------------------------------------------------------------
(* Strings *)

\* str.replace(old, new): every non-overlapping occurrence, left to right
RECURSIVE Replace(_, _, _)
Replace(s, old, new) ==
    IF old = <<>> \/ Len(s) < Len(old) THEN s
    ELSE IF SubSeq(s, 1, Len(old)) = old
         THEN new \o Replace(SubSeq(s, Len(old) + 1, Len(s)), old, new)
         ELSE <<s[1]>> \o Replace(Tail(s), old, new)

\* the number of non-overlapping occurrences of old in s, left to right
RECURSIVE Count(_, _)
Count(s, old) ==
    IF old = <<>> \/ Len(s) < Len(old) THEN 0
    ELSE IF SubSeq(s, 1, Len(old)) = old
         THEN 1 + Count(SubSeq(s, Len(old) + 1, Len(s)), old)
         ELSE Count(Tail(s), old)

\* str.lower(), on the letters the model uses
LowerChar(c) == IF c = "B" THEN "b" ELSE IF c = "C" THEN "c" ELSE c
Lower(s) == [i \in 1..Len(s) |-> LowerChar(s[i])]

Digits == {"0", "1", "2", "3", "4", "5", "6", "7", "8", "9"}
DigitValue(c) ==
    CASE c = "0" -> 0 [] c = "1" -> 1 [] c = "2" -> 2 [] c = "3" -> 3
      [] c = "4" -> 4 [] c = "5" -> 5 [] c = "6" -> 6 [] c = "7" -> 7
      [] c = "8" -> 8 [] c = "9" -> 9
\* str.isdigit() and int()
IsDigit(s) == s # <<>> /\ \A i \in 1..Len(s) : s[i] \in Digits
RECURSIVE ToInt(_)
ToInt(s) == IF s = <<>> THEN 0
            ELSE 10 * ToInt(SubSeq(s, 1, Len(s) - 1)) + DigitValue(s[Len(s)])

-----------------------------------------------------------------------------
(* The patterns, lines 32-35, on fragment sequences.  The operators give   *)
(* the matches of the patterns for every text in which each fragment that  *)
(* begins a URL also begins a blank-free run, as in all texts and Location *)
(* values used here.                                                       *)

\* fragments that begin with http(s)://
UrlStarts == {"P", "Z", "G", "b1"}
\* fragments matching B[0-9A-Z]{9}
Asins == {"a1", "a2"}
\* fragments made of [0-9A-Za-z] only
Alnum == Asins \cup {"k1", "w"}

\* the last index of the blank-free run that holds index i
RunEnd(text, i) ==
    CHOOSE j \in i..Len(text) :
        /\ \A k \in i..j : text[k] # "sp"
        /\ j = Len(text) \/ text[j + 1] = "sp"

\* the first http(s):// of each blank-free run: where a match of a pattern
\* whose tail is [^\s]* can begin (its leading ([^\s]*)\. may swallow what
\* lies between that point and the host)
RunUrlStarts(text) ==
    {s \in 1..Len(text) :
        /\ text[s] \in UrlStarts
        /\ \A k \in 1..(s - 1) :
              text[k] \in UrlStarts => \E m \in k..s : text[m] = "sp"}

\* the matches of a set, as finditer yields them: by position
RECURSIVE InOrder(_)
InOrder(S) ==
    IF S = {} THEN <<>>
    ELSE LET m == CHOOSE x \in S : \A y \in S : x.from <= y.from
         IN  <<m>> \o InOrder(S \ {m})

Match(text, from, to, grp) ==
    [from |-> from, to |-> to, group |-> SubSeq(text, from, to), sub |-> grp]

\* the places of "amazon.<tld>/dp/" directly followed by an ASIN, in s..e
AsinPlaces(text, s, e) ==
    {p \in s..(e - 1) : text[p] = "P" /\ text[p + 1] \in Asins}

Max(S) == CHOOSE x \in S : \A y \in S : y <= x

\* FULL_URL_REGEX.finditer(text), line 32; sub is group(8), the ASIN: the
\* greedy ([^\s]*) groups leave it to the last ASIN place of the run
FULL_URL_REGEX_finditer(text) ==
    InOrder({Match(text, s, RunEnd(text, s),
                   <<text[Max(AsinPlaces(text, s, RunEnd(text, s))) + 1]>>) :
             s \in {x \in RunUrlStarts(text) :
                       AsinPlaces(text, x, RunEnd(text, x)) # {}}})

\* RAW_URL_REGEX.finditer(text), line 35: no ASIN is required
RAW_URL_REGEX_finditer(text) ==
    InOrder({Match(text, s, RunEnd(text, s), <<>>) :
             s \in {x \in RunUrlStarts(text) :
                       \E p \in x..RunEnd(text, x) : text[p] = "P"}})

\* the last index of the [0-9A-Za-z]+ stretch that begins at i
AlnumEnd(text, i) ==
    CHOOSE j \in i..Len(text) :
        /\ \A k \in i..j : text[k] \in Alnum
        /\ j = Len(text) \/ text[j + 1] \notin Alnum

\* SHORT_URL_REGEX.finditer(text), line 33; sub is group(5), the token
SHORT_URL_REGEX_finditer(text) ==
    InOrder({Match(text, s, AlnumEnd(text, s + 1),
                   SubSeq(text, s + 1, AlnumEnd(text, s + 1))) :
             s \in {x \in 1..(Len(text) - 1) :
                       text[x] = "Z" /\ text[x + 1] \in Alnum}})

\* URL_REGEX.finditer(text), line 34: every fragment of the model lies in
\* its character class, so a match runs to the end of the blank-free run
URL_REGEX_finditer(text) ==
    InOrder({Match(text, s, RunEnd(text, s), <<>>) : s \in RunUrlStarts(text)})

\* SHORT_URL_REGEX.match(url) and RAW_URL_REGEX.match(url), line 318:
\* anchored at the start of url
SHORT_URL_REGEX_match(url) ==
    Len(url) >= 2 /\ url[1] = "Z" /\ url[2] \in Alnum
RAW_URL_REGEX_match(url) ==
    url # <<>> /\ url[1] \in UrlStarts /\ \E p \in 1..Len(url) : url[p] = "P"

\* get_asin_from_full_url, lines 172-183 (never called with None here: the
\* caller's TypeError is modelled where it is called)
get_asin_from_full_url(url) ==
    LET found == FULL_URL_REGEX_finditer(url)        \* search: first match
    IN  IF found = <<>> THEN url ELSE found[1].sub

-----------------------------------------------------------------------------
(* Users, chats and the ignore lists, lines 38-39 *)

\* the environment's IGNORE_USERS, split at the commas: "@b,42"
IGNORE_USERS == << <<"@", "b">>, <<"4", "2">> >>

\* line 38: the entries that start with '@', lowered (the '@' is kept)
USERNAMES_TO_IGNORE ==
    {Lower(IGNORE_USERS[i]) :
        i \in {j \in 1..Len(IGNORE_USERS) :
                  IGNORE_USERS[j] # <<>> /\ IGNORE_USERS[j][1] = "@"}}

\* line 39: the entries made of digits, as integers
USER_IDS_TO_IGNORE ==
    {ToInt(IGNORE_USERS[i]) :
        i \in {j \in 1..Len(IGNORE_USERS) : IsDigit(IGNORE_USERS[j])}}

\* telegram.User: a username never carries the '@' (build_mention adds it)
Users ==
    { [id |-> 7,  username |-> <<"c">>, first_name |-> <<"n">>],
      [id |-> 42, username |-> <<"c">>, first_name |-> <<"n">>],
      [id |-> 7,  username |-> <<"B">>, first_name |-> <<"n">>] }

ChatTypes == {"private", "group"}

\* lines 185-195 (last_name is None: first_name, a blank, '')
build_mention(user) ==
    IF Truthy(user.username) THEN <<"@">> \o user.username
    ELSE user.first_name \o <<"sp">>

\* lines 197-206
is_group(chat) == chat \in {"group", "supergroup"}

-----------------------------------------------------------------------------
(* Message texts: blank-separated items, each a word or one link *)

Items == { <<"w">>, <<"P", "a1">>, <<"P", "a2", "?q">>, <<"Z", "k1">>, <<"G">> }

RECURSIVE TextsOf(_)
TextsOf(n) ==
    IF n = 1 THEN Items
    ELSE {t \o <<"sp">> \o i : t \in TextsOf(n - 1), i \in Items}

Texts == UNION {TextsOf(n) : n \in 1..MaxItems}

\* the handler is registered for filters.TEXT (line 373): text is not empty
\* and there is no caption
Messages ==
    [chat : ChatTypes, from_user : Users, text : Texts, caption : {NoneStr}]

-----------------------------------------------------------------------------
(* Link Resolver / Tag Injector, lines 44-130 *)

\* what a function gives when it raises exception e instead of returning
Raise(e) == <<"<raised>", e>>
IsRaised(x) == x # <<>> /\ x[1] = "<raised>"

\* line 62
alternate_tags == {"D"}

\* lines 44-69; lucky is  random.random() < 0.35.  random.choice of an
\* empty list raises IndexError ("<raised>")
get_amazon_tag(original_tag, lucky) ==
    IF ~SUPPORT_DEV THEN original_tag
    ELSE IF lucky
         THEN LET pool == {tag \in alternate_tags : tag # original_tag}
              IN  IF pool = {} THEN "<raised>" ELSE CHOOSE tag \in pool : TRUE
         ELSE original_tag

AMAZON_TAG == config.AMAZON_TAG

\* the fragment ?tag=<tag> and the fragment &tag=<tag>
QTag(tag) == IF tag = "D" THEN "?D" ELSE "?T"
ATag(tag) == IF tag = "D" THEN "&D" ELSE "&T"

build_amazon_url_primary(asin, lucky) == <<"P">> \o asin \o <<QTag(AMAZON_TAG)>>

\* lines 88-99: https://www.amazon.<tld>/dp/<asin>?tag=<selected_tag>
build_amazon_url(asin, lucky) ==
    LET selected_tag == get_amazon_tag(AMAZON_TAG, lucky)
    IN  IF selected_tag = "<raised>"
        THEN Raise("IndexError: Cannot choose from an empty sequence")
        ELSE <<"P">> \o asin \o <<QTag(selected_tag)>>

QueryFragments == {"?q", "&q", "?e", "&e", "?T", "&T", "?D", "&D"}
TagFragments == {"?T", "&T", "?D", "&D"}
BlankFragments == {"?e", "&e"}

\* n parameters ref=x, the first of them opening the query or not
RECURSIVE Refs(_, _)
Refs(n, opening) ==
    IF n = 0 THEN <<>>
    ELSE <<IF opening THEN "?q" ELSE "&q">> \o Refs(n - 1, FALSE)

\* lines 101-117: parse_qs drops the parameters with an empty value and
\* groups the values by name in the order of first appearance; the tag is
\* overwritten where it stands, or added last; urlencode writes the query
\* again
build_raw_amazon_url(element, lucky) ==
    LET url == IF Truthy(element.expanded_url) THEN element.expanded_url
               ELSE element.full_url
        selected_tag == get_amazon_tag(AMAZON_TAG, lucky)
        path == SelectSeq(url, LAMBDA f : f \notin QueryFragments)
        query == SelectSeq(url, LAMBDA f : f \in QueryFragments \ BlankFragments)
        refs == Len(SelectSeq(query, LAMBDA f : f \notin TagFragments))
        tagFirst == query # <<>> /\ query[1] \in TagFragments
    IN  IF selected_tag = "<raised>"
        THEN Raise("IndexError: Cannot choose from an empty sequence")
        ELSE IF tagFirst
        THEN path \o <<QTag(selected_tag)>> \o Refs(refs, FALSE)
        ELSE path \o Refs(refs, TRUE)
                  \o <<IF refs = 0 THEN QTag(selected_tag) ELSE ATag(selected_tag)>>

\* what the POST to bit.ly can give: a body with "link", a body without
\* it, or a fault (no connection, a body that is not JSON)
BitlyOutcomes == {"link", "nolink", "fault"}

\* lines 71-86: nothing here catches what session.post or response.json
\* raise
shorten_url(url, bitly) ==
    IF bitly = "fault" THEN Raise("aiohttp.ClientError")
    ELSE IF bitly = "link" THEN <<"b1">>
    ELSE url

\* lines 119-130
get_amazon_url(element, lucky, bitly) ==
    LET url == IF Truthy(element.asin) THEN build_amazon_url(element.asin, lucky)
               ELSE build_raw_amazon_url(element, lucky)
    IN  IF IsRaised(url) THEN url
        ELSE IF SHORTEN_LINKS THEN shorten_url(url, bitly) ELSE url

\* whether get_amazon_url(element, ...) sends a POST to bit.ly
get_amazon_url_posts(element, lucky) ==
    IF SHORTEN_LINKS /\ get_amazon_tag(AMAZON_TAG, lucky) # "<raised>" THEN 1 ELSE 0

\* what get_amazon_url(element, ...) logs: line 85
get_amazon_url_logs(element, lucky, bitly) ==
    IF get_amazon_url_posts(element, lucky) = 1 /\ bitly = "nolink"
    THEN << <<"Error in bitly response">> >> ELSE <<>>

-----------------------------------------------------------------------------
(* handle_message, lines 292-361, stage by stage.  Each stage is a function *)
(* from the task's record (the message and the handler's locals) and what   *)
(* the outside world answers to the task's next record.                     *)

Tasks == {1, 2}

Off == [pc |-> "off", chat |-> "private",
        from_user |-> [id |-> 0, username |-> NoneStr, first_name |-> <<>>],
        msg_text |-> <<>>, caption |-> NoneStr, text |-> <<>>, message |-> <<>>,
        affiliate_message |-> <<>>, replacements |-> <<>>, deleted |-> FALSE,
        out |-> <<>>, logs |-> <<>>, gets |-> 0, posts |-> 0]

\* an update as it reaches handle_message
Received(m) ==
    [Off EXCEPT !.pc = "received", !.chat = m.chat, !.from_user = m.from_user,
                !.msg_text = m.text, !.caption = m.caption]

except_reraise(tk, e) == [tk EXCEPT !.pc = "raised"]

\* lines 359-361: every Exception is caught, reported, printed and not
\* raised again
except_Exception(tk, e) ==
    [tk EXCEPT !.pc = "dropped",
               !.logs = @ \o << <<"ERROR, please file a bug report">>, <<e>> >>]

\* lines 269-290, for a message without text_link entities
replace_text_links(tk) == tk.msg_text

FilteredInAnyChat(tk) ==
    IF Lower(tk.from_user.username) \notin USERNAMES_TO_IGNORE
       /\ tk.from_user.id \notin USER_IDS_TO_IGNORE
    THEN [tk EXCEPT !.pc = "filtered", !.text = replace_text_links(tk)]
    ELSE [tk EXCEPT !.pc = "ignored",
                    !.logs = Append(@, <<"Ignored message from">>
                                        \o build_mention(tk.from_user))]

FilteredByHandleOnly(tk) ==
    IF Lower(tk.from_user.username) \notin USERNAMES_TO_IGNORE \/ ~is_group(tk.chat)
    THEN [tk EXCEPT !.pc = "filtered", !.text = replace_text_links(tk)]
    ELSE [tk EXCEPT !.pc = "ignored",
                    !.logs = Append(@, <<"Ignored message from">>
                                        \o build_mention(tk.from_user))]

\* lines 306-313 and 357-358
Filtered(tk) ==
    LET from_username == IF Truthy(tk.from_user.username)
                         THEN Lower(tk.from_user.username) ELSE <<>>
        from_id == tk.from_user.id
        text == replace_text_links(tk)
    IN  IF (from_username \notin USERNAMES_TO_IGNORE
            /\ from_id \notin USER_IDS_TO_IGNORE) \/ ~is_group(tk.chat)
        THEN [tk EXCEPT !.pc = "filtered",
                        !.text = IF Truthy(text) THEN text ELSE tk.caption]
        ELSE [tk EXCEPT !.pc = "ignored",
                        !.logs = Append(@, <<"Ignored message from">>
                                            \o build_mention(tk.from_user))]

\* line 318
IsNonAmazon(m) == ~SHORT_URL_REGEX_match(m.group) /\ ~RAW_URL_REGEX_match(m.group)

\* the non-Amazon URLs of the text, lines 317-318
NonAmazonUrls(text) == SelectSeq(URL_REGEX_finditer(text), IsNonAmazon)

\* line 169, as logged by the outermost activation
ShortUrlError(short_url) == <<"Short URL">> \o short_url \o <<"-> ERROR">>

\* lines 317-321, from the i-th URL on: the log, the probe, the result
RECURSIVE ProbeNonAmazon(_, _, _, _)
ProbeNonAmazon(tk, found, resps, i) ==
    IF i > Len(found) THEN tk
    ELSE LET url == found[i].group
             long_url == get_long_url(url, 0, resps[i])
         IN  ProbeNonAmazon(
                 [tk EXCEPT
                    !.gets = @ + get_long_url_gets(url, 0, resps[i]),
                    !.logs = @ \o << <<"Found non-Amazon URL">> \o url >>
                               \o (IF long_url.ok THEN <<>>
                                   ELSE <<ShortUrlError(url)>>)],
                 found, resps, i + 1)

\* lines 323-325, from element i on
RECURSIVE ApplyLongUrls(_, _, _)
ApplyLongUrls(text, long_url_replacements, i) ==
    IF i > Len(long_url_replacements) THEN text
    ELSE LET element == long_url_replacements[i]
         IN  ApplyLongUrls(
                 IF element.ok /\ Truthy(element.full_url)
                 THEN Replace(text, element.short_url, element.full_url)
                 ELSE text,
                 long_url_replacements, i + 1)

\* lines 315-325; resps[i] are the responses to the probes of the i-th URL
Expanded(tk, resps) ==
    IF ~CHECK_FOR_REDIRECTS THEN [tk EXCEPT !.pc = "expanded"]
    ELSE LET found == NonAmazonUrls(tk.text)
             long_url_replacements ==
                 [i \in 1..Len(found) |-> get_long_url(found[i].group, 0, resps[i])]
             probed == ProbeNonAmazon(tk, found, resps, 1)
         IN  [probed EXCEPT
                !.pc = "expanded",
                !.text = ApplyLongUrls(tk.text, long_url_replacements, 1)]

Element(asin, expanded_url, full_url) ==
    [asin |-> asin, expanded_url |-> expanded_url, full_url |-> full_url]

DetectedLastFirst(tk) ==
    LET found == IF RAW_LINKS THEN RAW_URL_REGEX_finditer(tk.text)
                 ELSE FULL_URL_REGEX_finditer(tk.text)
    IN  [tk EXCEPT
           !.pc = "detected",
           !.replacements =
               [i \in 1..Len(found) |->
                   Element(IF RAW_LINKS THEN NoneStr ELSE found[Len(found) + 1 - i].sub,
                           NoneStr, found[Len(found) + 1 - i].group)]]

\* lines 327-333
Detected(tk) ==
    LET found == IF RAW_LINKS THEN RAW_URL_REGEX_finditer(tk.text)
                 ELSE FULL_URL_REGEX_finditer(tk.text)
    IN  [tk EXCEPT
           !.pc = "detected",
           !.replacements =
               [i \in 1..Len(found) |->
                   Element(IF RAW_LINKS THEN NoneStr ELSE found[i].sub,
                           NoneStr, found[i].group)]]

\* lines 343-345: the token of the short link when no ASIN was extracted
AsinOrToken(asin, full_url, token) ==
    IF ~Truthy(asin) \/ asin = full_url THEN token ELSE asin

\* lines 335-346, from the i-th short link on
RECURSIVE ResolveShortLinks(_, _, _, _)
ResolveShortLinks(tk, found, resps, i) ==
    IF i > Len(found) THEN tk
    ELSE LET short_url == found[i].group
             url == get_long_url(short_url, 0, resps[i])
             probed == [tk EXCEPT !.gets = @ + get_long_url_gets(short_url, 0, resps[i])]
         IN  IF ~url.ok
             THEN ResolveShortLinks(
                      [probed EXCEPT !.logs = Append(@, ShortUrlError(short_url))],
                      found, resps, i + 1)
             ELSE IF RAW_LINKS
             THEN ResolveShortLinks(
                      [probed EXCEPT !.replacements =
                          Append(@, Element(NoneStr, url.full_url, short_url))],
                      found, resps, i + 1)
             ELSE IF url.full_url = NoneStr
             THEN \* get_asin_from_full_url(None): FULL_URL_REGEX.search raises
                  except_Exception(probed,
                      "TypeError: expected string or bytes-like object")
             ELSE LET asin == AsinOrToken(get_asin_from_full_url(url.full_url),
                                          url.full_url, found[i].sub)
                  IN  ResolveShortLinks(
                          [probed EXCEPT !.replacements =
                              Append(@, Element(asin, NoneStr, short_url))],
                          found, resps, i + 1)

\* lines 335-348: the short links, then the test  if replacements
Resolved(tk, resps) ==
    LET r == ResolveShortLinks(tk, SHORT_URL_REGEX_finditer(tk.text), resps, 1)
    IN  IF r.pc = "detected"
        THEN [r EXCEPT !.pc = IF r.replacements # <<>> THEN "resolved" ELSE "done"]
        ELSE r

\* line 27, the default; "LF" is a line feed, "BSn" would be a backslash
\* followed by n
GROUP_REPLACEMENT_MESSAGE ==
    <<"Message by ", "{USER}", " with Amazon affiliate link:", "LF", "LF", "{MESSAGE}">>

\* lines 222-225, from element i on; lucky[i] and bitly[i] are the random
\* draw and bit.ly's answer for element i
RECURSIVE GroupBody(_, _, _, _)
GroupBody(tk, lucky, bitly, i) ==
    IF i > Len(tk.replacements) THEN tk
    ELSE LET element == tk.replacements[i]
             sponsored_url == get_amazon_url(element, lucky[i], bitly[i])
             posted == [tk EXCEPT
                          !.posts = @ + get_amazon_url_posts(element, lucky[i]),
                          !.logs = @ \o get_amazon_url_logs(element, lucky[i], bitly[i])]
         IN  IF IsRaised(sponsored_url) THEN except_Exception(posted, sponsored_url[2])
             ELSE GroupBody(
                      [posted EXCEPT !.affiliate_message =
                          Replace(@, element.full_url, sponsored_url)],
                      lucky, bitly, i + 1)

\* line 227 for any template and mention: four str.replace calls, each on
\* the result of the one before
Fill(template, mention, affiliate_message, message) ==
    Replace(Replace(Replace(Replace(template,
        <<"BSn">>, <<"LF">>),
        <<"{USER}">>, mention),
        <<"{MESSAGE}">>, affiliate_message),
        <<"{ORIGINAL_MESSAGE}">>, message)

\* line 227
Template(user, affiliate_message, message) ==
    Fill(GROUP_REPLACEMENT_MESSAGE, build_mention(user), affiliate_message, message)

\* lines 208-233, called at line 349 with message = text.  In a private
\* chat with several replacements, line 230 hands str.join a generator
\* expression that holds an await, which is an asynchronous generator: join
\* raises TypeError before any element is looked at
Composed(tk, lucky, bitly) ==
    IF is_group(tk.chat)
    THEN LET r == GroupBody([tk EXCEPT !.message = tk.text,
                                       !.affiliate_message = tk.text],
                            lucky, bitly, 1)
         IN  IF r.pc # "resolved" THEN r
             ELSE [r EXCEPT !.pc = "composed",
                            !.text = Template(tk.from_user, r.affiliate_message, tk.text)]
    ELSE IF Len(tk.replacements) > 1
         THEN except_Exception([tk EXCEPT !.message = tk.text],
                               "TypeError: can only join an iterable")
         ELSE LET element == tk.replacements[1]
                  text == get_amazon_url(element, lucky[1], bitly[1])
                  posted == [tk EXCEPT
                               !.message = tk.text,
                               !.posts = @ + get_amazon_url_posts(element, lucky[1]),
                               !.logs = @ \o get_amazon_url_logs(element, lucky[1], bitly[1])]
              IN  IF IsRaised(text) THEN except_Exception(posted, text[2])
                  ELSE [posted EXCEPT !.pc = "composed", !.text = text]

DeletedInAnyChat(tk, api_ok) ==
    IF api_ok
    THEN [tk EXCEPT !.pc = "sending", !.deleted = TRUE,
                    !.out = Append(@, "delete_message")]
    ELSE except_Exception(tk, "telegram.error.TelegramError")

\* lines 247-254 of delete_and_send; api_ok: the Bot API call succeeds
Deleted(tk, api_ok) ==
    IF is_group(tk.chat)
    THEN IF api_ok
         THEN [tk EXCEPT !.pc = "sending", !.deleted = TRUE,
                         !.out = Append(@, "delete_message")]
         ELSE except_Exception(tk, "telegram.error.TelegramError")
    ELSE [tk EXCEPT !.pc = "sending"]

\* lines 256-267 of delete_and_send; sent is the number of Bot API calls
\* that succeed before one raises
Sent(tk, sent) ==
    LET photo == Truthy(tk.caption) /\ is_group(tk.chat)
        first == IF photo THEN "send_photo" ELSE "send_message"
        second == IF photo THEN "send_photo to CHANNEL_NAME"
                  ELSE "send_message to CHANNEL_NAME"
    IN  IF sent = 0 THEN except_Exception(tk, "telegram.error.TelegramError")
        ELSE IF ~CHANNEL_NAME
        THEN [tk EXCEPT !.pc = "dispatched", !.out = Append(@, first)]
        ELSE IF sent = 1
        THEN except_Exception([tk EXCEPT !.out = Append(@, first)],
                              "telegram.error.TelegramError")
        ELSE [tk EXCEPT !.pc = "dispatched",
                        !.out = Append(Append(@, first), second)]

\* lines 352-356: one line per replacement
Logged(tk) ==
    [tk EXCEPT
       !.pc = "done",
       !.logs = @ \o [i \in 1..Len(tk.replacements) |->
                        <<"Long URL">> \o tk.replacements[i].full_url
                        \o <<"-> ASIN">> \o tk.replacements[i].asin
                        \o <<"from">> \o build_mention(tk.from_user)
                        \o (IF tk.deleted THEN <<"(original message deleted)">>
                            ELSE <<>>)]]

-----------------------------------------------------------------------------
(* The actions of a handle_message task *)

\* the responses to the probes of one get_long_url call, one per hop: a
\* fault, a plain answer, a redirect to a page of Amazon's, to a page that
\* is not Amazon's, or without a Location
Hops == IF CHECK_FOR_REDIRECT_CHAINS THEN MAX_REDIRECT_CHAIN_DEPTH ELSE 1
ProbeAnswers == [1..Hops -> Responses \ {RespRedirect(<<"Z", "k1">>)}]

\* a fault that escapes handle_message is one the dispatcher sees
Commit(t, r) ==
    /\ task' = [task EXCEPT ![t] = r]
    /\ crashed' = (crashed \/ r.pc = "raised")
    /\ UNCHANGED <<config, resolveVars, call>>

Filter(t) ==
    /\ task[t].pc = "received"
    /\ Commit(t, Filtered(task[t]))

ExpandRedirects(t) ==
    /\ task[t].pc = "filtered"
    /\ \E resps \in [1..(IF CHECK_FOR_REDIRECTS
                         THEN Len(NonAmazonUrls(task[t].text)) ELSE 0) -> ProbeAnswers] :
          Commit(t, Expanded(task[t], resps))

Detect(t) ==
    /\ task[t].pc = "expanded"
    /\ Commit(t, Detected(task[t]))

ResolveShort(t) ==
    /\ task[t].pc = "detected"
    /\ \E resps \in [1..Len(SHORT_URL_REGEX_finditer(task[t].text)) -> ProbeAnswers] :
          Commit(t, Resolved(task[t], resps))

\* the draws of get_amazon_tag and the answers of bit.ly, one per element
Draws(tk) == [1..Len(tk.replacements) -> IF SUPPORT_DEV THEN BOOLEAN ELSE {FALSE}]
Answers(tk) ==
    [1..Len(tk.replacements) -> IF SHORTEN_LINKS THEN BitlyOutcomes ELSE {"nolink"}]

Compose(t) ==
    /\ task[t].pc = "resolved"
    /\ \E lucky \in Draws(task[t]), bitly \in Answers(task[t]) :
          Commit(t, Composed(task[t], lucky, bitly))

Delete(t) ==
    /\ task[t].pc = "composed"
    /\ \E api_ok \in BOOLEAN : Commit(t, Deleted(task[t], api_ok))

\* the rest of delete_and_send and, when it returns, lines 352-356, which
\* follow without another await
Send(t) ==
    /\ task[t].pc = "sending"
    /\ \E sent \in 0..2 :
          LET r == Sent(task[t], sent)
          IN  Commit(t, IF r.pc = "dispatched" THEN Logged(r) ELSE r)

Step(t) ==
    \/ Filter(t) \/ ExpandRedirects(t) \/ Detect(t) \/ ResolveShort(t)
    \/ Compose(t) \/ Delete(t) \/ Send(t)

Next == \E t \in Tasks : Step(t)

-----------------------------------------------------------------------------
(* Calls of the functions of the link resolver and of the template, one at *)
(* a time, on inputs of every shape                                        *)

\* largest number of parameters in the query of a raw link
MaxParams == 3

\* full-form links: bare, with a query, with a tag of someone else
FullLinks == { <<"P", "a1">>, <<"P", "a2", "?q">>, <<"P", "a2", "?q", "&T">>,
               <<"P", "a1", "?D">> }

\* the queries of n parameters, each of ref=x, psc=, tag=<AMAZON_TAG> or
\* tag=gioxx-21
RECURSIVE Queries(_)
Queries(n) ==
    IF n = 0 THEN {<<>>}
    ELSE IF n = 1 THEN {<<f>> : f \in {"?q", "?e", "?T", "?D"}}
    ELSE {q \o <<f>> : q \in Queries(n - 1), f \in {"&q", "&e", "&T", "&D"}}

RawLinks == {<<"P", "a1">> \o q : q \in UNION {Queries(n) : n \in 0..MaxParams}}

\* values of GROUP_REPLACEMENT_MESSAGE, of build_mention (a user name, or a
\* first name that reads {MESSAGE}), of the substituted body and of the body
Templates ==
    { GROUP_REPLACEMENT_MESSAGE,
      <<"{USER}", "BSn", "{MESSAGE}">>,
      <<"{MESSAGE}", "sp", "{ORIGINAL_MESSAGE}">>,
      <<"{USER}", ":", "{ORIGINAL_MESSAGE}">> }
Mentions == { <<"@", "c">>, <<"{MESSAGE}", "sp">> }
Bodies == { <<"w">>, <<"P", "a1", "?T">>, <<"{ORIGINAL_MESSAGE}", "sp", "P", "a1", "?T">>,
            <<"BSn">> }
Originals == { <<"w">>, <<"P", "a1">>, <<"{ORIGINAL_MESSAGE}", "sp", "P", "a1">> }

Returned(fn, args, lucky, out) ==
    [fn |-> fn, args |-> args, lucky |-> lucky, out |-> out]

\* get_amazon_tag(AMAZON_TAG), lines 98 and 114
CallGetAmazonTag ==
    /\ \E lucky \in BOOLEAN :
          call' = Returned("get_amazon_tag", <<>>, lucky,
                           <<get_amazon_tag(AMAZON_TAG, lucky)>>)
    /\ UNCHANGED <<config, taskVars, resolveVars>>

\* lines 329-333 and 129: the ASIN of a full-form link, then build_amazon_url
CallBuildAmazonUrl ==
    /\ ~RAW_LINKS
    /\ \E url \in FullLinks, lucky \in BOOLEAN :
          LET asin == FULL_URL_REGEX_finditer(url)[1].sub
          IN  call' = Returned("build_amazon_url", <<url, asin>>, lucky,
                               build_amazon_url(asin, lucky))
    /\ UNCHANGED <<config, taskVars, resolveVars>>

\* lines 329-333 and 129 with RAW_LINKS: build_raw_amazon_url
CallBuildRawAmazonUrl ==
    /\ RAW_LINKS
    /\ \E url \in RawLinks, lucky \in BOOLEAN :
          call' = Returned("build_raw_amazon_url", <<url>>, lucky,
                           build_raw_amazon_url(Element(NoneStr, NoneStr, url), lucky))
    /\ UNCHANGED <<config, taskVars, resolveVars>>

\* line 227
CallFill ==
    /\ \E template \in Templates, mention \in Mentions,
          affiliate_message \in Bodies, message \in Originals :
          call' = Returned("Fill", <<template, mention, affiliate_message, message>>,
                           FALSE, Fill(template, mention, affiliate_message, message))
    /\ UNCHANGED <<config, taskVars, resolveVars>>

NextBuild ==
    CallGetAmazonTag \/ CallBuildAmazonUrl \/ CallBuildRawAmazonUrl \/ CallFill

-----------------------------------------------------------------------------
(* Specifications *)

\* line 26: the default of MAX_REDIRECT_CHAIN_DEPTH
DefaultDepth == 2

ResolverIdle ==
    /\ net = [u \in Urls |-> RespOk]
    /\ rstack = <<>> /\ rret = NoRet /\ rgets = 0 /\ rcalls = 0 /\ rtrace = <<>>
    /\ call = NoCall

\* one message, any configuration with the default chain depth, a tag of
\* the operator's own and no CHANNEL_NAME
Init ==
    /\ config \in {c \in Configs : /\ c.MAX_REDIRECT_CHAIN_DEPTH = DefaultDepth
                                   /\ c.AMAZON_TAG = "T" /\ ~c.CHANNEL_NAME}
    /\ \E m \in Messages : task = [t \in Tasks |-> IF t = 1 THEN Received(m) ELSE Off]
    /\ crashed = FALSE
    /\ ResolverIdle

Spec == Init /\ [][Next]_vars

\* one top-level call of get_long_url, any redirect graph, any chain depth
InitResolve ==
    /\ config \in {c \in Configs :
                     /\ ~c.RAW_LINKS /\ ~c.CHECK_FOR_REDIRECTS /\ ~c.SHORTEN_LINKS
                     /\ c.SUPPORT_DEV /\ ~c.CHANNEL_NAME /\ c.AMAZON_TAG = "T"}
    /\ task = [t \in Tasks |-> Off]
    /\ crashed = FALSE
    /\ net \in [Urls -> Responses]
    /\ rstack = <<>> /\ rret = NoRet /\ rgets = 0 /\ rcalls = 0 /\ rtrace = <<>>
    /\ call = NoCall

\* a call that was made runs on: the event loop resumes it, and a GET
\* ends with a response or with a fault
SpecResolve == InitResolve /\ [][NextResolve]_vars /\ WF_vars(NextResolve)

\* two messages whose tasks the event loop interleaves at their awaits: a
\* message of one item each, with or without link shortening
InitConc ==
    /\ config \in {c \in Configs :
                     /\ c.MAX_REDIRECT_CHAIN_DEPTH = DefaultDepth
                     /\ ~c.RAW_LINKS /\ ~c.CHECK_FOR_REDIRECTS
                     /\ ~c.CHECK_FOR_REDIRECT_CHAINS /\ ~c.SUPPORT_DEV
                     /\ ~c.CHANNEL_NAME /\ c.AMAZON_TAG = "T"}
    /\ task \in [Tasks -> {Received(m) : m \in {n \in Messages : n.text \in TextsOf(1)}}]
    /\ crashed = FALSE
    /\ ResolverIdle

SpecConc == InitConc /\ [][Next]_vars

\* the functions of the link resolver and the template, for every primary
\* tag, with and without SUPPORT_DEV and RAW_LINKS
InitBuild ==
    /\ config \in {c \in Configs :
                     /\ c.MAX_REDIRECT_CHAIN_DEPTH = DefaultDepth
                     /\ ~c.CHECK_FOR_REDIRECTS /\ ~c.CHECK_FOR_REDIRECT_CHAINS
                     /\ ~c.SHORTEN_LINKS /\ ~c.CHANNEL_NAME}
    /\ task = [t \in Tasks |-> Off]
    /\ crashed = FALSE
    /\ ResolverIdle

SpecBuild == InitBuild /\ [][NextBuild]_vars

-----------------------------------------------------------------------------
(* Claims *)

IsSend(op) == op \in {"send_message", "send_photo"}
HasSent(tk) == \E i \in 1..Len(tk.out) : IsSend(tk.out[i])
HasLogged(tk, line) == \E i \in 1..Len(tk.logs) : tk.logs[i] = line

\* C1: whatever fault ends the processing of a message, the fault is not
\* raised out of handle_message and the original message is left untouched:
\* it is not deleted unless a replacement message has been sent.
C1_FaultLeavesMessageUntouched ==
    /\ ~crashed
    /\ \A t \in Tasks :
          task[t].pc = "dropped" => (task[t].deleted => HasSent(task[t]))

LastResponse == rtrace[Len(rtrace)]

\* the call is over and its last GET was answered by a redirect that the
\* depth bound (or the disabled chain check) forbade to follow
BoundReached ==
    /\ ResolveDone /\ rtrace # <<>>
    /\ LastResponse.kind = "response" /\ IsRedirectStatus(LastResponse.status)
    /\ ~FollowChain(Len(rtrace))

\* C2: for every redirect graph, cyclic ones included, and every
\* MAX_REDIRECT_CHAIN_DEPTH >= 1, a top-level call of get_long_url ends; it
\* never has more than MAX_REDIRECT_CHAIN_DEPTH activations, never sends
\* more than MAX_REDIRECT_CHAIN_DEPTH GETs, and at the bound it returns the
\* Location it saw last without another GET.
C2_BoundedRedirectFollowing ==
    /\ [](/\ rcalls <= MAX_REDIRECT_CHAIN_DEPTH
          /\ rgets <= MAX_REDIRECT_CHAIN_DEPTH
          /\ Len(rstack) <= MAX_REDIRECT_CHAIN_DEPTH
          /\ BoundReached =>
                /\ rret.ok /\ rret.full_url = LastResponse.location
                /\ rgets = Len(rtrace))
    /\ <>ResolveDone

\* a cycle (a URL that redirects to itself) followed up to the bound
C2_Witness ==
    /\ BoundReached /\ CHECK_FOR_REDIRECT_CHAINS
    /\ MAX_REDIRECT_CHAIN_DEPTH >= 2 /\ rgets = MAX_REDIRECT_CHAIN_DEPTH
    /\ \A i \in 1..Len(rtrace) : rtrace[i] = RespRedirect(<<"G">>)
    /\ rret = Resolution(<<"G">>, <<"G">>)

-----------------------------------------------------------------------------
(* Claims about handle_message *)

SearchError == <<"TypeError: expected string or bytes-like object">>
BitlyError == <<"aiohttp.ClientError">>
TelegramError == <<"telegram.error.TelegramError">>

IsPrefix(s, t) == Len(s) <= Len(t) /\ SubSeq(t, 1, Len(s)) = s

\* C3: a short link that cannot be resolved (transport fault, redirect
\* without a Location, fault at a hop of a chain) costs only its own
\* candidate: the step that resolves the short links of a message never ends
\* the processing of the message, and the candidates found before it stay.
C3_FailedShortLinkDropsOnlyItself ==
    [][\A t \in Tasks :
          task[t].pc = "detected" =>
             /\ task'[t].pc \in {"detected", "resolved", "done"}
             /\ IsPrefix(task[t].replacements, task'[t].replacements)]_vars

\* the reply build_message owes a private chat: the URL alone for one
\* candidate, one bullet line per candidate otherwise
RECURSIVE BulletLines(_, _, _, _)
BulletLines(replacements, lucky, bitly, i) ==
    IF i > Len(replacements) THEN <<>>
    ELSE <<"bullet", "sp">> \o get_amazon_url(replacements[i], lucky[i], bitly[i])
         \o (IF i < Len(replacements) THEN <<"LF">> ELSE <<>>)
         \o BulletLines(replacements, lucky, bitly, i + 1)

PrivateReply(replacements, lucky, bitly) ==
    IF Len(replacements) = 1
    THEN get_amazon_url(replacements[1], lucky[1], bitly[1])
    ELSE BulletLines(replacements, lucky, bitly, 1)

\* build_message was called for the task, and neither bit.ly nor the Bot
\* API faulted
ComposedUnfaulted(tk) ==
    /\ tk.message # <<>>
    /\ ~HasLogged(tk, BitlyError) /\ ~HasLogged(tk, TelegramError)

\* C4: in a private chat, once build_message is called (and neither bit.ly
\* nor the Bot API faults), the reply is the resolved URL alone for one
\* candidate and one bullet line per candidate, in detection order, for two
\* or more; the reply is sent and nothing else is.
C4_PrivateReply ==
    \A t \in Tasks :
       (~is_group(task[t].chat) /\ ComposedUnfaulted(task[t])) =>
          /\ task[t].pc \in {"composed", "sending", "done"}
          /\ \E lucky \in Draws(task[t]), bitly \in Answers(task[t]) :
                task[t].text = PrivateReply(task[t].replacements, lucky, bitly)
          /\ task[t].pc = "done" => task[t].out = <<"send_message">>

\* the candidates, not used yet, whose matched text stands at position i
Standing(text, replacements, used, i) ==
    {j \in (1..Len(replacements)) \ used :
        /\ i + Len(replacements[j].full_url) - 1 <= Len(text)
        /\ SubSeq(text, i, i + Len(replacements[j].full_url) - 1)
              = replacements[j].full_url}

\* one pass over the body from position i: the k-th occurrence of a matched
\* text gives way to the URL of the k-th candidate that matched it (the
\* longest matched text where two stand at the same place)
RECURSIVE OnePass(_, _, _, _, _)
OnePass(text, replacements, urls, used, i) ==
    IF i > Len(text) THEN <<>>
    ELSE LET here == Standing(text, replacements, used, i)
             longest == {j \in here : \A k \in here :
                            Len(replacements[k].full_url) <= Len(replacements[j].full_url)}
             j == CHOOSE c \in longest : \A k \in longest : c <= k
         IN  IF here = {}
             THEN <<text[i]>> \o OnePass(text, replacements, urls, used, i + 1)
             ELSE urls[j] \o OnePass(text, replacements, urls, used \cup {j},
                                     i + Len(replacements[j].full_url))

\* C5: in a group chat the composed body is the body handed to
\* build_message with every occurrence of every candidate's matched text
\* replaced once by that candidate's affiliate URL, the rest unchanged.
C5_GroupBodyReplacedOnce ==
    \A t \in Tasks :
       (is_group(task[t].chat) /\ task[t].pc = "composed") =>
          \E lucky \in Draws(task[t]), bitly \in Answers(task[t]) :
             task[t].affiliate_message =
                OnePass(task[t].message, task[t].replacements,
                        [j \in 1..Len(task[t].replacements) |->
                            get_amazon_url(task[t].replacements[j], lucky[j], bitly[j])],
                        {}, 1)

\* C6: with SHORTEN_LINKS on, a failure of bit.ly never ends the processing
\* of a message: no message is dropped with a fault of the shortening call.
C6_ShorteningFailureNotFatal ==
    \A t \in Tasks :
       SHORTEN_LINKS => ~(task[t].pc = "dropped" /\ HasLogged(task[t], BitlyError))

IgnoredLine(tk) == <<"Ignored message from">> \o build_mention(tk.from_user)

\* C7: a group message of an author whose numeric id is in the ignore list
\* is neither deleted nor answered, whatever links it holds; the handler
\* logs the "ignored" line and sends no probe and no shortening request.
C7_IgnoredById ==
    \A t \in Tasks :
       (/\ is_group(task[t].chat)
        /\ task[t].from_user.id \in USER_IDS_TO_IGNORE
        /\ task[t].pc \notin {"off", "received"}) =>
          /\ task[t].pc = "ignored"
          /\ task[t].out = <<>> /\ ~task[t].deleted
          /\ task[t].gets = 0 /\ task[t].posts = 0
          /\ task[t].logs = <<IgnoredLine(task[t])>>

C7_Witness ==
    \E t \in Tasks :
       /\ is_group(task[t].chat) /\ task[t].from_user.id \in USER_IDS_TO_IGNORE
       /\ task[t].pc = "ignored"
       /\ FULL_URL_REGEX_finditer(task[t].msg_text) # <<>>
       /\ SHORT_URL_REGEX_finditer(task[t].msg_text) # <<>>
       /\ CHECK_FOR_REDIRECTS /\ SHORTEN_LINKS

\* the ignore list holds the entry @handle for this username, whatever the
\* case of the letters
HandleConfigured(username) ==
    \E i \in 1..Len(IGNORE_USERS) :
       /\ IGNORE_USERS[i] # <<>> /\ IGNORE_USERS[i][1] = "@"
       /\ Lower(Tail(IGNORE_USERS[i])) = Lower(username)

\* C8: a group message of an author whose handle is in the ignore list
\* (entry @handle, case-insensitive) is neither deleted nor answered, as for
\* an author ignored by numeric id.
C8_IgnoredByHandle ==
    \A t \in Tasks :
       (/\ is_group(task[t].chat)
        /\ Truthy(task[t].from_user.username)
        /\ HandleConfigured(task[t].from_user.username)
        /\ task[t].pc \notin {"off", "received"}) =>
          /\ task[t].pc = "ignored"
          /\ task[t].out = <<>> /\ ~task[t].deleted

\* the identifier captured from a short link
Token(short_url) == SHORT_URL_REGEX_finditer(short_url)[1].sub

\* C9: without RAW_LINKS, a short link whose resolved URL holds no ASIN
\* becomes a candidate with the token of the short link as its ASIN, and
\* what cannot be used is dropped silently: resolving never logs an error
\* of the pattern search, and every candidate of a short link carries an
\* ASIN of the resolved URL or the token.
C9_ShortLinkFallsBackToToken ==
    ~RAW_LINKS =>
       \A t \in Tasks :
          /\ ~HasLogged(task[t], SearchError)
          /\ \A i \in 1..Len(task[t].replacements) :
                LET element == task[t].replacements[i]
                IN  SHORT_URL_REGEX_match(element.full_url) =>
                       /\ Truthy(element.asin)
                       /\ \/ element.asin = Token(element.full_url)
                          \/ (Len(element.asin) = 1 /\ element.asin[1] \in Asins)

-----------------------------------------------------------------------------
(* Claims about the link resolver and the template *)

\* the tags get_amazon_tag may select: the primary tag, or with SUPPORT_DEV
\* and the draw below 0.35 an alternate tag other than the primary one
Selectable(lucky) ==
    IF SUPPORT_DEV /\ lucky THEN alternate_tags \ {AMAZON_TAG} ELSE {AMAZON_TAG}

\* C11 as stated: for a full-form link with ASIN a, the resolved URL is
\* exactly https://www.amazon.<tld>/dp/<a>?tag=<t>, t the configured tag.
C11_UrlCarriesConfiguredTag ==
    call.fn = "build_amazon_url" =>
       call.out = <<"P">> \o call.args[2] \o <<QTag(AMAZON_TAG)>>

\* C11, amended: for a full-form link with ASIN a, whenever build_amazon_url
\* returns, the resolved URL is exactly https://www.amazon.<tld>/dp/<a>?tag=<s>
\* (path and query of the link discarded), where s is the tag get_amazon_tag
\* selected: the configured tag when SUPPORT_DEV is off or the draw is not
\* below 0.35, an alternate tag other than the configured one otherwise; it
\* raises only when no such alternate tag exists.
C11_UrlCarriesSelectedTag ==
    call.fn = "build_amazon_url" =>
       IF Selectable(call.lucky) = {}
       THEN IsRaised(call.out)
       ELSE \E selected_tag \in Selectable(call.lucky) :
               call.out = <<"P">> \o call.args[2] \o <<QTag(selected_tag)>>

\* https://www.amazon.com/dp/B000000002?ref=x with the draw below 0.35
C11_Witness ==
    /\ call.fn = "build_amazon_url" /\ call.args = << <<"P", "a2", "?q">>, <<"a2">> >>
    /\ SUPPORT_DEV /\ call.lucky /\ AMAZON_TAG = "T"
    /\ call.out = <<"P", "a2", "?D">>

PathOf(url) == SelectSeq(url, LAMBDA f : f \notin QueryFragments)
RefsOf(url) == Len(SelectSeq(url, LAMBDA f : f \in {"?q", "&q"}))
BlanksOf(url) == Len(SelectSeq(url, LAMBDA f : f \in BlankFragments))
TagsOf(url) == SelectSeq(url, LAMBDA f : f \in TagFragments)

\* C12: with RAW_LINKS, whenever build_raw_amazon_url returns, the URL has
\* the path of the input, every parameter of the input other than tag
\* (those with an empty value included), and exactly one tag parameter, the
\* selected tag, whether the input had no, one or several tag parameters.
C12_RawUrlKeepsParameters ==
    (call.fn = "build_raw_amazon_url" /\ ~IsRaised(call.out)) =>
       /\ PathOf(call.out) = PathOf(call.args[1])
       /\ RefsOf(call.out) = RefsOf(call.args[1])
       /\ BlanksOf(call.out) = BlanksOf(call.args[1])
       /\ Len(TagsOf(call.out)) = 1
       /\ \E selected_tag \in Selectable(call.lucky) :
             TagsOf(call.out)[1] \in {QTag(selected_tag), ATag(selected_tag)}

\* the template with every placeholder and every \n of its own replaced
\* at once, from fragment i on; what is inserted is not looked at again
RECURSIVE Substituted(_, _, _, _, _)
Substituted(template, mention, affiliate_message, message, i) ==
    IF i > Len(template) THEN <<>>
    ELSE (IF template[i] = "BSn" THEN <<"LF">>
          ELSE IF template[i] = "{USER}" THEN mention
          ELSE IF template[i] = "{MESSAGE}" THEN affiliate_message
          ELSE IF template[i] = "{ORIGINAL_MESSAGE}" THEN message
          ELSE <<template[i]>>)
         \o Substituted(template, mention, affiliate_message, message, i + 1)

\* C13: the composed group output is the template with its \n sequences
\* turned into newlines and {USER}, {MESSAGE}, {ORIGINAL_MESSAGE} replaced
\* by the mention, the substituted body and the original body; the inserted
\* values are taken literally and never substituted again.
C13_TemplateFilledLiterally ==
    call.fn = "Fill" =>
       call.out = Substituted(call.args[1], call.args[2], call.args[3],
                              call.args[4], 1)

\* C14: for every primary tag, one of the alternate pool included, and
\* every draw, get_amazon_tag returns without raising: the primary tag when
\* SUPPORT_DEV is off, and otherwise the primary tag or an alternate tag
\* other than the primary one.
C14_TagSelectedWithoutRaising ==
    call.fn = "get_amazon_tag" =>
       /\ call.out[1] # "<raised>"
       /\ ~SUPPORT_DEV => call.out[1] = AMAZON_TAG
       /\ call.out[1] \in {AMAZON_TAG} \cup (alternate_tags \ {AMAZON_TAG})

-----------------------------------------------------------------------------
(* Claims about get_long_url and the order of the work of handle_message *)

\* the URL of the k-th GET of a call get_long_url(start) that received the
\* responses trace
Fetched(start, trace, k) == IF k = 1 THEN start ELSE trace[k - 1].location

\* C15: when the top-level call get_long_url(url) returns a result that is
\* not the failure, its short_url is url, and its full_url is url when the
\* first response is no redirect, the Location just received when chains are
\* not followed or the bound is reached, and otherwise the URL at which the
\* followed chain stopped.
C15_ResultPairsFinalWithOriginal ==
    [][(Len(rstack) = 1 /\ rstack' = <<>> /\ rret'.ok) =>
          LET url == rstack[1].short_url
              n == Len(rtrace')
              last == rtrace'[n]
          IN  /\ rret'.short_url = url
              /\ ~CHECK_FOR_REDIRECT_CHAINS => n = 1
              /\ n <= MAX_REDIRECT_CHAIN_DEPTH
              /\ rret'.full_url =
                    IF IsRedirectStatus(last.status) THEN last.location
                    ELSE Fetched(url, rtrace', n)
              /\ IsRedirectStatus(last.status) =>
                    (~CHECK_FOR_REDIRECT_CHAINS \/ n = MAX_REDIRECT_CHAIN_DEPTH)]_vars

\* https://amzn.to/3xYz redirects to a page that answers 200: the chain was
\* followed and the result pairs that page with the short link
C15_Witness ==
    /\ ResolveDone /\ CHECK_FOR_REDIRECT_CHAINS
    /\ rtrace = <<RespRedirect(<<"G">>), RespOk>>
    /\ rret = Resolution(<<"G">>, <<"Z", "k1">>)

\* the text the patterns were run on: text until build_message is called,
\* then its argument message
DetectionText(tk) == IF tk.message # <<>> THEN tk.message ELSE tk.text

PastDetection(tk) ==
    tk.pc \in {"detected", "resolved", "composed", "sending", "done", "dropped"}

\* the matches of the family the RAW_LINKS flag selects
FamilyMatches(text) ==
    IF RAW_LINKS THEN RAW_URL_REGEX_finditer(text) ELSE FULL_URL_REGEX_finditer(text)

\* the logged failures of get_long_url for the short links of the text
ShortFailures(tk) ==
    LET shorts == SHORT_URL_REGEX_finditer(DetectionText(tk))
    IN  Cardinality({i \in 1..Len(tk.logs) :
                       \E k \in 1..Len(shorts) :
                          tk.logs[i] = ShortUrlError(shorts[k].group)})

C17_OutboundOrder ==
    \A t \in Tasks :
       LET tk == task[t] IN
       /\ tk.deleted <=> (tk.out # <<>> /\ tk.out[1] = "delete_message")
       /\ tk.deleted => (is_group(tk.chat) /\ tk.replacements # <<>>)
       /\ is_group(tk.chat) =>
             tk.out \in {<<>>, <<"delete_message">>,
                         <<"delete_message", "send_message">>}
       /\ ~is_group(tk.chat) => tk.out \in {<<>>, <<"send_message">>}
       /\ HasSent(tk) =>
             /\ tk.replacements # <<>>
             /\ tk.pc = "done"
       /\ (tk.pc = "done" /\ tk.replacements = <<>>) => tk.out = <<>>
       /\ (tk.pc = "done" /\ tk.replacements # <<>>) => HasSent(tk)

\* a group message deleted and then replaced
C17_Witness ==
    \E t \in Tasks :
       /\ is_group(task[t].chat) /\ task[t].pc = "done"
       /\ Len(task[t].replacements) = 2
       /\ task[t].out = <<"delete_message", "send_message">>

\* the author is on the ignore list, by numeric id or by handle
OnIgnoreList(user) ==
    \/ user.id \in USER_IDS_TO_IGNORE
    \/ Truthy(user.username) /\ HandleConfigured(user.username)

\* C18: the ignore list counts in group chats only: a private message of a
\* user on the list is never ignored, and when it holds a candidate link and
\* its processing ends without error it was answered with the affiliate
\* link.
C18_PrivateChatNotFiltered ==
    \A t \in Tasks :
       (~is_group(task[t].chat) /\ OnIgnoreList(task[t].from_user)) =>
          /\ task[t].pc # "ignored"
          /\ ~HasLogged(task[t], IgnoredLine(task[t]))
          /\ (task[t].pc = "done" /\ task[t].replacements # <<>>) =>
                /\ task[t].out = <<"send_message">>
                /\ \E lucky \in Draws(task[t]), bitly \in Answers(task[t]) :
                      task[t].text =
                         get_amazon_url(task[t].replacements[1], lucky[1], bitly[1])

\* user 42 sends a link in a private chat and gets the affiliate link
C18_Witness ==
    \E t \in Tasks :
       /\ ~is_group(task[t].chat) /\ task[t].from_user.id \in USER_IDS_TO_IGNORE
       /\ task[t].pc = "done" /\ task[t].msg_text = <<"P", "a1">>
       /\ task[t].out = <<"send_message">>
       /\ task[t].text = <<"P", "a1", "?T">>

=============================================================================
